---- MODULE Spec2Model ----
(***************************************************************************)
(* Model of src/background.js: the service worker of a full-page           *)
(* screenshot extension.  The file registers two sets of listeners.        *)
(*   - lines 1-235: a click injects measurePage; its "dimensions" message  *)
(*     starts beginCapture / captureCurrentViewport, a chain of promise    *)
(*     callbacks over the globals currentTab, screenshots, dimensions,     *)
(*     ending in processScreenshots / processImages and "downloadImage".   *)
(*   - lines 236-392: a click injects getPageDimensions; its "dimensions"  *)
(*     message starts the async function handleCapture, ending in          *)
(*     combineScreenshots and "downloadRequest".                           *)
(* Every listener is registered on the same chrome event, so an event is   *)
(* dispatched to the listeners of both sets.                               *)
(*                                                                         *)
(* Pixels are modelled by rows only (widths take no part in any decision   *)
(* of the code).  Math.floor(viewportHeight * 0.9) equals                  *)
(* (9 * viewportHeight) \div 10 on every integer below 100000 in IEEE      *)
(* doubles, and is modelled so.                                            *)
(***************************************************************************)
EXTENDS Integers, Sequences, FiniteSets, TLC

(***************************************************************************)
(* Bounds of the model                                                     *)
(***************************************************************************)
MaxViewport == 10
MaxHeight == 25
MaxScreens == 3
MaxOrigScroll == 1
MaxTiles == 3
MaxClicks == 1
MaxDimensionMsgs == 1
MaxFaults == 1

Tabs == {1}

Max(a, b) == IF a >= b THEN a ELSE b
Min(a, b) == IF a <= b THEN a ELSE b

\* The pages the browser may show: a window of 0, 1 or MaxViewport rows, a
\* document of at most MaxScreens windows (it may be shorter than the window).
Geometries ==
    { g \in [height : 1..MaxHeight, viewportHeight : {0, 1, MaxViewport}] :
        g.height <= MaxScreens * Max(g.viewportHeight, 1) }

\* The pages of the two-trigger specification.
RaceGeometries ==
    { g \in Geometries : g.viewportHeight = MaxViewport /\ g.height = MaxViewport }

VARIABLES
    currentTab,     \* global currentTab (0 is null)
    screenshots,    \* global screenshots array
    dimensions,     \* global dimensions (NoDimensions is null)
    page,           \* browser: the geometry of the page in each tab
    scrollY,        \* browser: window.scrollY of each tab
    activeTab,      \* browser: the tab shown in the window
    injections,     \* pending executeScript calls of the measuring routines
    messages,       \* runtime messages sent and not yet dispatched
    chains,         \* captureCurrentViewport callback chains
    loops,          \* handleCapture activations
    comps,          \* compositor runs (processImages / combineScreenshots)
    downloads,      \* chrome.downloads.download requests issued
    clicks,         \* toolbar clicks so far
    nmsgs,          \* "dimensions" messages sent so far
    faults          \* rejected promises and failed decodes so far

vars == << currentTab, screenshots, dimensions, page, scrollY, activeTab,
           injections, messages, chains, loops, comps, downloads,
           clicks, nmsgs, faults >>

NoTab == 0
NoDimensions == [height |-> -1, viewportHeight |-> -1, originalScrollPos |-> -1]

Replace(S, old, new) == (S \ {old}) \cup {new}

(***************************************************************************)
(* The browser                                                             *)
(***************************************************************************)
\* window.scrollTo(0, position): the host clamps to the scrollable range.
ScrollTo(tab, position) ==
    Max(0, Min(position, Max(0, page[tab].height - page[tab].viewportHeight)))

\* chrome.tabs.captureVisibleTab(null, ...): the visible rows of the active tab.
captureVisibleTab ==
    [tab |-> activeTab, y |-> scrollY[activeTab],
     rows |-> page[activeTab].viewportHeight]

(***************************************************************************)
(* Routines that run in the page                                           *)
(***************************************************************************)
\* measurePage / getPageDimensions: the "dimensions" message a measuring
\* routine sends from `tab` (n numbers the message, for the record only).
measurePage(tab, n) ==
    [type |-> "dimensions", tab |-> tab, n |-> n,
     dimensions |-> [height |-> page[tab].height,
                     viewportHeight |-> page[tab].viewportHeight,
                     originalScrollPos |-> scrollY[tab]]]

White == 0
Transparent == -1

\* ctx.drawImage(img, 0, y) on a canvas of rows 0..height-1: the image `img`
\* (the index of the tile in the array), `rows` rows tall, replaces what
\* the canvas showed on the rows it covers.
drawImage(canvas, img, rows, y) ==
    [r \in DOMAIN canvas |-> IF y <= r /\ r < y + rows THEN img ELSE canvas[r]]

\* processImages.drawImages: the for loop over the screenshots; loadImage
\* resolves null for a tile that fails to decode (i \in bad), and the tile is
\* skipped.
RECURSIVE drawImages(_, _, _, _)
drawImages(shots, bad, canvas, i) ==
    IF i > Len(shots) THEN canvas
    ELSE drawImages(shots, bad,
                    IF i \in bad THEN canvas
                    ELSE drawImage(canvas, i, shots[i].dataUrl.rows, shots[i].scrollY),
                    i + 1)

\* combineScreenshots.processScreenshots: the for-of loop; the promise of a
\* tile resolves in img.onload only, so the loop never gets past a tile that
\* fails to decode.
RECURSIVE combineLoop(_, _, _, _)
combineLoop(shots, bad, canvas, i) ==
    IF i > Len(shots) \/ i \in bad THEN [canvas |-> canvas, i |-> i]
    ELSE combineLoop(shots, bad,
                     drawImage(canvas, i, shots[i].dataUrl.rows, shots[i].yPosition),
                     i + 1)

(***************************************************************************)
(* First listener set: captureCurrentViewport                              *)
(***************************************************************************)
scrollStep(viewportHeight) == (9 * viewportHeight) \div 10

Ceil(a, b) == (a + b - 1) \div b

\* scrollIndex < totalScrolls - 1, with totalScrolls = Math.ceil(height / scrollStep):
\* Infinity when scrollStep is 0 and height > 0.
MoreScrolls(scrollIndex, height, step) ==
    IF step = 0 THEN height > 0
    ELSE scrollIndex < Ceil(height, step) - 1

\* captureCurrentViewport(scrollIndex), as called with the globals currentTab = tab
\* and dimensions = dims: the constants of the activation, and the scroll it
\* issues.  c is the chain so far (its id, and the record of what it did).
captureCurrentViewport(c, scrollIndex, tab, dims) ==
    IF tab = NoTab \/ dims = NoDimensions
    THEN [c EXCEPT !.scrollIndex = scrollIndex, !.pc = "returned"]
    ELSE [c EXCEPT !.scrollIndex = scrollIndex,
                   !.started = IF scrollIndex = 0 THEN dims ELSE @,
                   !.tabId = tab,
                   !.height = dims.height,
                   !.viewportHeight = dims.viewportHeight,
                   !.scrollStep = scrollStep(dims.viewportHeight),
                   !.currentScrollPos = scrollIndex * scrollStep(dims.viewportHeight),
                   !.pc = "scroll",
                   !.log = Append(@, <<"scroll", scrollIndex>>)]

\* beginCapture's call captureCurrentViewport(0): a new chain.
NewChain(id) ==
    [id |-> id, scrollIndex |-> 0, tabId |-> NoTab, height |-> 0, viewportHeight |-> 0,
     scrollStep |-> 0, currentScrollPos |-> 0, pc |-> "start", log |-> <<>>,
     offsets |-> <<>>, started |-> NoDimensions]

\* AfterScroll with the settle delay left out: the capture is requested in
\* the .then of the scroll itself.
AfterScrollNoSettle(c) ==
    [c EXCEPT !.pc = "capture", !.log = Append(@, <<"scrolled", c.scrollIndex>>)]

\* The .then of the scroll: setTimeout(..., 500) is armed.
AfterScroll(c) ==
    [c EXCEPT !.pc = "settle", !.log = Append(@, <<"scrolled", c.scrollIndex>>)]

\* The timer callback: captureVisibleTab is called.
AfterSettle(c) ==
    [c EXCEPT !.pc = "capture", !.log = Append(@, <<"settled", c.scrollIndex>>)]

\* AfterRejection with the .catch of the scroll placed before its .then: the
\* error is logged and the chain goes on to the settle delay.
AfterRejectionSwallowed(c) ==
    [c EXCEPT !.pc = IF c.pc = "scroll" THEN "settle" ELSE "failed",
              !.log = Append(@, <<"failed", c.scrollIndex>>)]

\* The .catch of the scroll or of the capture: the error is logged.
AfterRejection(c) ==
    [c EXCEPT !.pc = "failed", !.log = Append(@, <<"failed", c.scrollIndex>>)]

\* processScreenshots(): the executeScript of processImages with a copy of
\* the globals as arguments.
processScreenshots(id, shots) ==
    IF currentTab = NoTab \/ Len(shots) = 0 THEN {}
    ELSE {[kind |-> "processImages", by |-> id, tab |-> currentTab,
           screenshots |-> shots, height |-> dimensions.height,
           status |-> "injected", canvas |-> <<>>, bad |-> {}]}

(***************************************************************************)
(* Second listener set: handleCapture                                      *)
(***************************************************************************)
\* i < numFullScreenshots, with numFullScreenshots = Math.ceil(height / viewportHeight):
\* Infinity when viewportHeight is 0 and height > 0.
MoreScreenshots(i, dims) ==
    IF dims.viewportHeight = 0 THEN dims.height > 0
    ELSE i < Ceil(dims.height, dims.viewportHeight)

\* yPosition: Math.min(i * viewportHeight, height - viewportHeight)
yPosition(i, dims) ==
    Min(i * dims.viewportHeight, dims.height - dims.viewportHeight)

\* The head of the for loop of handleCapture at index i: the scroll to
\* i * viewportHeight is issued, or the loop is left and the restoring scroll is.
forLoop(l, i, log) ==
    IF MoreScreenshots(i, l.dims)
    THEN [l EXCEPT !.i = i, !.pc = "scroll", !.log = Append(log, <<"scroll", i>>)]
    ELSE [l EXCEPT !.i = i, !.pc = "restore", !.log = Append(log, <<"restore", i>>)]

\* handleCapture(tabId, dimensions) up to its first await.
handleCapture(id, tabId, dims) ==
    forLoop([id |-> id, tabId |-> tabId, dims |-> dims, i |-> 0,
             screenshots |-> <<>>, pc |-> "start", log |-> <<>>], 0, <<>>)

\* The awaits of the loop body, resumed.
LoopAfterScroll(l) ==
    [l EXCEPT !.pc = "settle", !.log = Append(@, <<"scrolled", l.i>>)]

LoopAfterSettle(l) ==
    [l EXCEPT !.pc = "capture", !.log = Append(@, <<"settled", l.i>>)]

\* A rejected await: the async function ends with the exception.
LoopAfterRejection(l) ==
    [l EXCEPT !.pc = "failed", !.log = Append(@, <<"failed", l.i>>)]

\* The executeScript of combineScreenshots.
combineInjection(l) ==
    [kind |-> "combineScreenshots", by |-> l.id, tab |-> l.tabId,
     screenshots |-> l.screenshots, height |-> l.dims.height,
     status |-> "injected", canvas |-> <<>>, bad |-> {}]

(***************************************************************************)
(* Initial state: the service worker just loaded, the browser on any page  *)
(***************************************************************************)
InitWith(geometries) ==
    /\ currentTab = NoTab
    /\ screenshots = <<>>
    /\ dimensions = NoDimensions
    /\ page \in [Tabs -> geometries]
    /\ scrollY \in [Tabs -> 0..MaxOrigScroll]
    /\ \A t \in Tabs : scrollY[t] = ScrollTo(t, scrollY[t])
    /\ activeTab \in Tabs
    /\ injections = {}
    /\ messages = {}
    /\ chains = {}
    /\ loops = {}
    /\ comps = {}
    /\ downloads = <<>>
    /\ clicks = 0
    /\ nmsgs = 0
    /\ faults = 0

Init == InitWith(Geometries)

(***************************************************************************)
(* Events: the toolbar click and the measuring routines                    *)
(***************************************************************************)
\* chrome.action.onClicked, dispatched to both listeners: the first sets the
\* globals and injects measurePage, the second injects getPageDimensions.
Click(tab, limit) ==
    /\ clicks < limit
    /\ tab = activeTab
    /\ clicks' = clicks + 1
    /\ currentTab' = tab
    /\ screenshots' = <<>>
    /\ injections' = injections \cup
          { [fn |-> "measurePage", tab |-> tab, click |-> clicks + 1],
            [fn |-> "getPageDimensions", tab |-> tab, click |-> clicks + 1] }
    /\ UNCHANGED << dimensions, page, scrollY, activeTab, messages, chains,
                    loops, comps, downloads, nmsgs, faults >>

\* The injected measuring routine runs in the page and sends "dimensions".
InjectionResolved(j, limit) ==
    /\ j \in injections
    /\ nmsgs < limit
    /\ injections' = injections \ {j}
    /\ messages' = messages \cup {measurePage(j.tab, nmsgs + 1)}
    /\ nmsgs' = nmsgs + 1
    /\ UNCHANGED << currentTab, screenshots, dimensions, page, scrollY, activeTab,
                    chains, loops, comps, downloads, clicks, faults >>

\* InjectionFails with a .catch that goes on to beginCapture(): a chain is
\* started on the globals as they stand.
InjectionFailsAndCaptures(j, limit) ==
    /\ j \in injections
    /\ faults < limit
    /\ injections' = injections \ {j}
    /\ faults' = faults + 1
    /\ IF currentTab = NoTab \/ dimensions = NoDimensions
       THEN UNCHANGED << screenshots, chains >>
       ELSE /\ screenshots' = <<>>
            /\ chains' = chains \cup
                  {captureCurrentViewport(NewChain(0), 0, currentTab, dimensions)}
    /\ UNCHANGED << currentTab, dimensions, page, scrollY, activeTab,
                    messages, loops, comps, downloads, clicks, nmsgs >>

\* executeScript rejects: the .catch of the first listener and the catch
\* block of the second only log the error.  limit bounds the rejections.
InjectionFails(j, limit) ==
    /\ j \in injections
    /\ faults < limit
    /\ injections' = injections \ {j}
    /\ faults' = faults + 1
    /\ UNCHANGED << currentTab, screenshots, dimensions, page, scrollY, activeTab,
                    messages, chains, loops, comps, downloads, clicks, nmsgs >>

InjectionRejected(j) == InjectionFails(j, MaxFaults)

\* chrome.runtime.onMessage for a "dimensions" message, dispatched to both
\* listeners: the first stores the dimensions and calls beginCapture, the
\* second calls handleCapture(sender.tab.id, message.dimensions).
DeliverDimensions(m) ==
    /\ m \in messages
    /\ m.type = "dimensions"
    /\ messages' = messages \ {m}
    /\ dimensions' = m.dimensions
    /\ IF currentTab = NoTab
       THEN UNCHANGED << screenshots, chains >>
       ELSE /\ screenshots' = <<>>
            /\ chains' = chains \cup
                  {captureCurrentViewport(NewChain(m.n), 0, currentTab, m.dimensions)}
    /\ loops' = loops \cup {handleCapture(m.n, m.tab, m.dimensions)}
    /\ UNCHANGED << currentTab, page, scrollY, activeTab, injections, comps,
                    downloads, clicks, nmsgs, faults >>

\* chrome.runtime.onMessage for "downloadImage" (first listener) or
\* "downloadRequest" (second listener): chrome.downloads.download.
DeliverDownload(m) ==
    /\ m \in messages
    /\ m.type \in {"downloadImage", "downloadRequest"}
    /\ messages' = messages \ {m}
    /\ downloads' = Append(downloads, [type |-> m.type, by |-> m.n])
    /\ UNCHANGED << currentTab, screenshots, dimensions, page, scrollY, activeTab,
                    injections, chains, loops, comps, clicks, nmsgs, faults >>

(***************************************************************************)
(* Steps of a captureCurrentViewport chain                                 *)
(***************************************************************************)
\* scrollToPosition ran in the page and its promise resolved.
ChainScrolled(c) ==
    /\ c \in chains
    /\ c.pc = "scroll"
    /\ scrollY' = [scrollY EXCEPT ![c.tabId] = ScrollTo(c.tabId, c.currentScrollPos)]
    /\ chains' = Replace(chains, c, AfterScroll(c))
    /\ UNCHANGED << currentTab, screenshots, dimensions, page, activeTab, injections,
                    messages, loops, comps, downloads, clicks, nmsgs, faults >>

\* The 500 ms timer fired.
ChainSettled(c) ==
    /\ c \in chains
    /\ c.pc = "settle"
    /\ chains' = Replace(chains, c, AfterSettle(c))
    /\ UNCHANGED << currentTab, screenshots, dimensions, page, scrollY, activeTab,
                    injections, messages, loops, comps, downloads, clicks, nmsgs,
                    faults >>

\* captureVisibleTab resolved: the tile is pushed, and either the next
\* viewport is started or the screenshots are processed.
ChainCaptured(c) ==
    /\ c \in chains
    /\ c.pc = "capture"
    /\ c.scrollIndex < MaxTiles
    /\ LET shot == [dataUrl |-> captureVisibleTab, scrollY |-> c.currentScrollPos,
                    by |-> c.id]
           shots == Append(screenshots, shot)
           pushed == [c EXCEPT !.offsets = Append(@, c.currentScrollPos),
                               !.log = @ \o << <<"captured", c.scrollIndex>>,
                                               <<"recorded", c.scrollIndex>> >>]
       IN  /\ screenshots' = shots
           /\ IF /\ MoreScrolls(c.scrollIndex, c.height, c.scrollStep)
                 /\ c.currentScrollPos + c.scrollStep < c.height
              THEN /\ chains' = Replace(chains, c,
                          captureCurrentViewport(pushed, c.scrollIndex + 1,
                                                 currentTab, dimensions))
                   /\ comps' = comps
              ELSE /\ chains' = Replace(chains, c,
                          [pushed EXCEPT !.pc = "done",
                                         !.log = Append(@, <<"process", c.scrollIndex>>)])
                   /\ comps' = comps \cup processScreenshots(c.id, shots)
    /\ UNCHANGED << currentTab, dimensions, page, scrollY, activeTab, injections,
                    messages, loops, downloads, clicks, nmsgs, faults >>

\* The scroll or the capture rejected.
ChainRejected(c) ==
    /\ c \in chains
    /\ c.pc \in {"scroll", "capture"}
    /\ faults < MaxFaults
    /\ faults' = faults + 1
    /\ chains' = Replace(chains, c, AfterRejection(c))
    /\ UNCHANGED << currentTab, screenshots, dimensions, page, scrollY, activeTab,
                    injections, messages, loops, comps, downloads, clicks, nmsgs >>

(***************************************************************************)
(* Steps of a handleCapture activation                                     *)
(***************************************************************************)
\* await executeScript(window.scrollTo(0, i * viewportHeight)) resumed.
LoopScrolled(l) ==
    /\ l \in loops
    /\ l.pc = "scroll"
    /\ scrollY' = [scrollY EXCEPT ![l.tabId] =
                       ScrollTo(l.tabId, l.i * l.dims.viewportHeight)]
    /\ loops' = Replace(loops, l, LoopAfterScroll(l))
    /\ UNCHANGED << currentTab, screenshots, dimensions, page, activeTab, injections,
                    messages, chains, comps, downloads, clicks, nmsgs, faults >>

\* The 100 ms timer fired.
LoopSettled(l) ==
    /\ l \in loops
    /\ l.pc = "settle"
    /\ loops' = Replace(loops, l, LoopAfterSettle(l))
    /\ UNCHANGED << currentTab, screenshots, dimensions, page, scrollY, activeTab,
                    injections, messages, chains, comps, downloads, clicks, nmsgs,
                    faults >>

\* await captureVisibleTab resumed: the tile is pushed and the loop goes on.
LoopCaptured(l) ==
    /\ l \in loops
    /\ l.pc = "capture"
    /\ l.i < MaxTiles
    /\ LET shot == [dataUrl |-> captureVisibleTab, yPosition |-> yPosition(l.i, l.dims)]
           log == l.log \o << <<"captured", l.i>>, <<"recorded", l.i>> >>
       IN  loops' = Replace(loops, l,
                forLoop([l EXCEPT !.screenshots = Append(@, shot)], l.i + 1, log))
    /\ UNCHANGED << currentTab, screenshots, dimensions, page, scrollY, activeTab,
                    injections, messages, chains, comps, downloads, clicks, nmsgs,
                    faults >>

\* await executeScript(window.scrollTo(0, originalScrollPos)) resumed:
\* combineScreenshots is injected.
LoopRestored(l) ==
    /\ l \in loops
    /\ l.pc = "restore"
    /\ scrollY' = [scrollY EXCEPT ![l.tabId] = ScrollTo(l.tabId, l.dims.originalScrollPos)]
    /\ loops' = Replace(loops, l,
            [l EXCEPT !.pc = "combine", !.log = Append(@, <<"restored", l.i>>)])
    /\ comps' = comps \cup {combineInjection(l)}
    /\ UNCHANGED << currentTab, screenshots, dimensions, page, activeTab, injections,
                    messages, chains, downloads, clicks, nmsgs, faults >>

\* An awaited scroll or capture rejected.
LoopRejected(l) ==
    /\ l \in loops
    /\ l.pc \in {"scroll", "capture", "restore"}
    /\ faults < MaxFaults
    /\ faults' = faults + 1
    /\ loops' = Replace(loops, l, LoopAfterRejection(l))
    /\ UNCHANGED << currentTab, screenshots, dimensions, page, scrollY, activeTab,
                    injections, messages, chains, comps, downloads, clicks, nmsgs >>

(***************************************************************************)
(* The compositors, run in the page                                        *)
(***************************************************************************)
Canvas(height, fill) == [r \in 0..(height - 1) |-> fill]

DownloadMessage(type, k) ==
    [type |-> type, tab |-> k.tab, n |-> k.by, dimensions |-> NoDimensions]

\* processImages(screenshots, dimensions): white canvas, drawImages, and
\* the "downloadImage" message.  bad: the tiles that fail to decode.
RunProcessImages(k, bad) ==
    /\ k \in comps
    /\ k.kind = "processImages"
    /\ k.status = "injected"
    /\ bad \subseteq 1..Len(k.screenshots)
    /\ bad = {} \/ faults + Cardinality(bad) <= MaxFaults
    /\ faults' = faults + Cardinality(bad)
    /\ comps' = Replace(comps, k,
          [k EXCEPT !.status = "sent", !.bad = bad,
                    !.canvas = drawImages(k.screenshots, bad,
                                          Canvas(k.height, White), 1)])
    /\ messages' = messages \cup {DownloadMessage("downloadImage", k)}
    /\ UNCHANGED << currentTab, screenshots, dimensions, page, scrollY, activeTab,
                    injections, chains, loops, downloads, clicks, nmsgs >>

\* combineScreenshots(screenshots, width, height): a fresh canvas, the loop
\* over the tiles, and the "downloadRequest" message once the loop is over.
\* The routine returns at once, which resumes handleCapture's last await.
RunCombineScreenshots(k, bad) ==
    /\ k \in comps
    /\ k.kind = "combineScreenshots"
    /\ k.status = "injected"
    /\ bad \subseteq 1..Len(k.screenshots)
    /\ bad = {} \/ faults + Cardinality(bad) <= MaxFaults
    /\ faults' = faults + Cardinality(bad)
    /\ LET res == combineLoop(k.screenshots, bad, Canvas(k.height, Transparent), 1)
           over == res.i > Len(k.screenshots)
       IN  /\ comps' = Replace(comps, k,
                  [k EXCEPT !.status = IF over THEN "sent" ELSE "blocked",
                            !.bad = bad, !.canvas = res.canvas])
           /\ messages' = IF over
                          THEN messages \cup {DownloadMessage("downloadRequest", k)}
                          ELSE messages
    /\ loops' = { IF l.id = k.by /\ l.pc = "combine"
                  THEN [l EXCEPT !.pc = "done", !.log = Append(@, <<"combined", l.i>>)]
                  ELSE l : l \in loops }
    /\ UNCHANGED << currentTab, screenshots, dimensions, page, scrollY, activeTab,
                    injections, chains, downloads, clicks, nmsgs >>

\* The executeScript of a compositor rejected: processScreenshots logs it,
\* handleCapture ends with the exception.
CompositorRejected(k) ==
    /\ k \in comps
    /\ k.status = "injected"
    /\ faults < MaxFaults
    /\ faults' = faults + 1
    /\ comps' = Replace(comps, k, [k EXCEPT !.status = "rejected"])
    /\ loops' = { IF k.kind = "combineScreenshots" /\ l.id = k.by /\ l.pc = "combine"
                  THEN LoopAfterRejection(l) ELSE l : l \in loops }
    /\ UNCHANGED << currentTab, screenshots, dimensions, page, scrollY, activeTab,
                    injections, messages, chains, downloads, clicks, nmsgs >>

(***************************************************************************)
(* Specifications                                                          *)
(***************************************************************************)
\* The steps of the drivers and compositors when every call succeeds.
Steps ==
    \/ \E m \in messages : DeliverDimensions(m)
    \/ \E m \in messages : DeliverDownload(m)
    \/ \E c \in chains : ChainScrolled(c)
    \/ \E c \in chains : ChainSettled(c)
    \/ \E c \in chains : ChainCaptured(c)
    \/ \E l \in loops : LoopScrolled(l)
    \/ \E l \in loops : LoopSettled(l)
    \/ \E l \in loops : LoopCaptured(l)
    \/ \E l \in loops : LoopRestored(l)

\* The calls that may fail: a rejected promise, a tile that does not decode.
Faulty ==
    \/ \E c \in chains : ChainRejected(c)
    \/ \E l \in loops : LoopRejected(l)
    \/ \E k \in comps : \E bad \in SUBSET (1..Len(k.screenshots)) : RunProcessImages(k, bad)
    \/ \E k \in comps : \E bad \in SUBSET (1..Len(k.screenshots)) : RunCombineScreenshots(k, bad)
    \/ \E k \in comps : CompositorRejected(k)
    \/ \E j \in injections : InjectionRejected(j)

\* One trigger: one click, and one "dimensions" message answered to it.
Next ==
    \/ \E tab \in Tabs : Click(tab, MaxClicks)
    \/ \E j \in injections : InjectionResolved(j, MaxDimensionMsgs)
    \/ Steps
    \/ Faulty

Spec == Init /\ [][Next]_vars

\* Two triggers on one page: up to RaceClicks clicks and RaceDimensionMsgs
\* "dimensions" messages answered to them; every call succeeds, a tile may
\* fail to decode in processImages.
RaceClicks == 2
RaceDimensionMsgs == 2

InitRace == InitWith(RaceGeometries)

NextRace ==
    \/ \E tab \in Tabs : Click(tab, RaceClicks)
    \/ \E j \in injections : InjectionResolved(j, RaceDimensionMsgs)
    \/ Steps
    \/ \E k \in comps : \E bad \in SUBSET (1..Len(k.screenshots)) : RunProcessImages(k, bad)
    \/ \E k \in comps : RunCombineScreenshots(k, {})

SpecRace == InitRace /\ [][NextRace]_vars

\* Denied injections: up to InjectClicks clicks on one page, one "dimensions"
\* message answered, and up to InjectFaults executeScript calls of the
\* measuring routines rejected; every other call succeeds.
InjectClicks == 2
InjectDimensionMsgs == 1
InjectFaults == 4

NextInject ==
    \/ \E tab \in Tabs : Click(tab, InjectClicks)
    \/ \E j \in injections : InjectionResolved(j, InjectDimensionMsgs)
    \/ \E j \in injections : InjectionFails(j, InjectFaults)
    \/ Steps
    \/ \E k \in comps : RunProcessImages(k, {})
    \/ \E k \in comps : RunCombineScreenshots(k, {})

SpecInject == InitRace /\ [][NextInject]_vars

\* Two tabs of one window with different pages: the user clicks the toolbar
\* button on the active tab and may activate the other tab at any moment; up
\* to TabsClicks clicks and TabsDimensionMsgs "dimensions" messages; every
\* call succeeds.
TabsClicks == 2
TabsDimensionMsgs == 2
SmallViewport == 5
TwoTabs == {1, 2}

TabPages ==
    [t \in TwoTabs |->
        IF t = 1 THEN [height |-> MaxViewport, viewportHeight |-> MaxViewport]
        ELSE [height |-> SmallViewport, viewportHeight |-> SmallViewport]]

InitTabs ==
    /\ currentTab = NoTab
    /\ screenshots = <<>>
    /\ dimensions = NoDimensions
    /\ page = TabPages
    /\ scrollY = [t \in TwoTabs |-> 0]
    /\ activeTab = 1
    /\ injections = {}
    /\ messages = {}
    /\ chains = {}
    /\ loops = {}
    /\ comps = {}
    /\ downloads = <<>>
    /\ clicks = 0
    /\ nmsgs = 0
    /\ faults = 0

\* The user activates another tab of the window: captureVisibleTab and the
\* next click see that tab.
SwitchTab(tab) ==
    /\ tab # activeTab
    /\ activeTab' = tab
    /\ UNCHANGED << currentTab, screenshots, dimensions, page, scrollY, injections,
                    messages, chains, loops, comps, downloads, clicks, nmsgs, faults >>

\* The drivers on two tabs, up to the injection of the compositors.
NextTabs ==
    \/ \E tab \in TwoTabs : Click(tab, TabsClicks)
    \/ \E tab \in TwoTabs : tab > activeTab /\ SwitchTab(tab)
    \/ \E j \in injections : InjectionResolved(j, TabsDimensionMsgs)
    \/ \E m \in messages : DeliverDimensions(m)
    \/ \E c \in chains : ChainScrolled(c)
    \/ \E c \in chains : ChainSettled(c)
    \/ \E c \in chains : ChainCaptured(c)
    \/ \E l \in loops : LoopScrolled(l)
    \/ \E l \in loops : LoopSettled(l)
    \/ \E l \in loops : LoopCaptured(l)
    \/ \E l \in loops : LoopRestored(l)

SpecTabs == InitTabs /\ [][NextTabs]_vars

\* One trigger on the first of the two tabs, the user free to activate the
\* other tab meanwhile; every call succeeds, through to the downloads.
NextSwitch ==
    \/ \E tab \in TwoTabs : Click(tab, MaxClicks)
    \/ \E tab \in TwoTabs : SwitchTab(tab)
    \/ \E j \in injections : InjectionResolved(j, MaxDimensionMsgs)
    \/ Steps
    \/ \E k \in comps : RunProcessImages(k, {})
    \/ \E k \in comps : RunCombineScreenshots(k, {})

SpecSwitch == InitTabs /\ [][NextSwitch]_vars

(***************************************************************************)
(* What a driver recorded                                                  *)
(***************************************************************************)
RowUniverse == (0 - MaxViewport)..(MaxHeight + (MaxTiles + 1) * MaxViewport)

\* The rows of the tiles placed at `offsets`, each `rows` rows tall.
Rows(offsets, rows) ==
    { r \in RowUniverse : \E k \in DOMAIN offsets : offsets[k] <= r /\ r < offsets[k] + rows }

LoopOffsets(l) == [k \in DOMAIN l.screenshots |-> l.screenshots[k].yPosition]

\* A chain that captured its last viewport; a loop that left its for loop.
ChainComplete(c) == c.pc = "done"
LoopComplete(l) == l.pc \in {"restore", "combine", "done"}

Increasing(offsets) ==
    \A j, k \in DOMAIN offsets : j < k => offsets[j] < offsets[k]

HasEvent(log, name) == \E k \in DOMAIN log : log[k][1] = name

\* The driver failed on a tile: its scroll or its capture rejected.
TileFailed(log) ==
    /\ Len(log) >= 2
    /\ log[Len(log)][1] = "failed"
    /\ log[Len(log) - 1][1] \in {"scroll", "settled"}

(***************************************************************************)
(* Claims                                                                  *)
(***************************************************************************)

\* C1: for every geometry with height >= viewportHeight > 0, the tiles of a
\* complete, successful driver run cover exactly the rows [0, height): no row
\* uncovered, no tile outside, for captureCurrentViewport and handleCapture.
C1_CoverageExact ==
    /\ \A c \in chains :
          (ChainComplete(c) /\ c.height >= c.viewportHeight /\ c.viewportHeight > 0)
             => Rows(c.offsets, c.viewportHeight) = 0..(c.height - 1)
    /\ \A l \in loops :
          (LoopComplete(l) /\ l.dims.height >= l.dims.viewportHeight
                           /\ l.dims.viewportHeight > 0)
             => Rows(LoopOffsets(l), l.dims.viewportHeight) = 0..(l.dims.height - 1)

\* C2: in a complete, successful run the recorded offsets start at 0, increase
\* strictly and end at height - viewportHeight; for height 2500 and viewport
\* 1000 (here in units of 100 rows: 25 and 10) captureCurrentViewport records
\* 0, 900, 1500 (here 0, 9, 15).
C2_OffsetsMonotoneClamped ==
    /\ \A c \in chains :
          (ChainComplete(c) /\ c.height >= c.viewportHeight /\ c.viewportHeight > 0)
             => /\ c.offsets[1] = 0
                /\ Increasing(c.offsets)
                /\ c.offsets[Len(c.offsets)] = c.height - c.viewportHeight
                /\ (c.height = 25 /\ c.viewportHeight = 10) => c.offsets = <<0, 9, 15>>
    /\ \A l \in loops :
          (LoopComplete(l) /\ l.dims.height >= l.dims.viewportHeight
                           /\ l.dims.viewportHeight > 0)
             => /\ LoopOffsets(l)[1] = 0
                /\ Increasing(LoopOffsets(l))
                /\ LoopOffsets(l)[Len(l.screenshots)] = l.dims.height - l.dims.viewportHeight

TileCycle == << "scroll", "scrolled", "settled", "captured", "recorded" >>

IsTileEvent(e) == \E k \in DOMAIN TileCycle : TileCycle[k] = e[1]

StepOrder(log) ==
    \A k \in DOMAIN log :
        IF IsTileEvent(log[k])
        THEN log[k] = << TileCycle[((k - 1) % 5) + 1], (k - 1) \div 5 >>
        ELSE \A j \in DOMAIN log : j > k => ~IsTileEvent(log[j])

\* C3: in every chain and every handleCapture activation the steps of tile i
\* happen in the order scroll issued, scroll completed, settle delay elapsed,
\* capture completed, tile recorded, and the scroll of tile i+1 is issued only
\* after tile i is recorded.
C3_StepOrder ==
    /\ \A c \in chains : StepOrder(c.log)
    /\ \A l \in loops : StepOrder(l.log)

\* C3 witness: a chain and a handleCapture activation that each recorded two tiles
C3_Witness ==
    /\ \E c \in chains : Len(c.offsets) >= 2
    /\ \E l \in loops : Len(l.screenshots) >= 2

ChainActive(c) == c.pc \in {"scroll", "settle", "capture"}
LoopActive(l) == l.pc \in {"scroll", "settle", "capture", "restore"}

\* C4: at most one capture loop of a driver is active on a tab at any time: a
\* trigger arriving while a loop runs on the tab starts no second loop.
C4_OneSessionPerTab ==
    \A t \in Tabs :
        /\ Cardinality({c \in chains : ChainActive(c) /\ c.tabId = t}) <= 1
        /\ Cardinality({l \in loops : LoopActive(l) /\ l.tabId = t}) <= 1

\* C5: once the scroll or the capture of a tile failed, the driver takes no
\* further step, its compositor is never injected, and no download message or
\* download request comes from it.
C5_FailureStops ==
    /\ \A c \in chains :
          /\ \A k \in DOMAIN c.log : c.log[k][1] = "failed" => k = Len(c.log)
          /\ TileFailed(c.log) =>
                /\ \A k \in comps : ~(k.kind = "processImages" /\ k.by = c.id)
                /\ \A m \in messages : ~(m.type = "downloadImage" /\ m.n = c.id)
                /\ \A d \in DOMAIN downloads :
                      ~(downloads[d].type = "downloadImage" /\ downloads[d].by = c.id)
    /\ \A l \in loops :
          /\ \A k \in DOMAIN l.log : l.log[k][1] = "failed" => k = Len(l.log)
          /\ TileFailed(l.log) =>
                /\ \A k \in comps : ~(k.kind = "combineScreenshots" /\ k.by = l.id)
                /\ \A m \in messages : ~(m.type = "downloadRequest" /\ m.n = l.id)
                /\ \A d \in DOMAIN downloads :
                      ~(downloads[d].type = "downloadRequest" /\ downloads[d].by = l.id)

\* C5 witness: the capture of a chain's second tile rejected, and the
\* handleCapture activation of the same trigger ran to its end
C5_Witness ==
    /\ \E c \in chains : /\ TileFailed(c.log)
                         /\ Len(c.offsets) = 1
                         /\ c.log[Len(c.log) - 1][1] = "settled"
    /\ \E l \in loops : l.pc = "done"

\* C6: a driver run that captured all its tiles has commanded the scroll back
\* to originalScrollPos, for captureCurrentViewport and handleCapture.
C6_RestoreCommanded ==
    /\ \A c \in chains : ChainComplete(c) => HasEvent(c.log, "restore")
    /\ \A l \in loops : LoopComplete(l) => HasEvent(l.log, "restore")

\* C7: for every geometry with 0 < height <= viewportHeight a complete run
\* recorded exactly one tile, at offset 0.
C7_SingleViewport ==
    /\ \A c \in chains :
          (ChainComplete(c) /\ 0 < c.height /\ c.height <= c.viewportHeight)
             => c.offsets = <<0>>
    /\ \A l \in loops :
          (LoopComplete(l) /\ 0 < l.dims.height /\ l.dims.height <= l.dims.viewportHeight)
             => LoopOffsets(l) = <<0>>

\* C8: a compositor that ran, with a tile that failed to decode, skipped the
\* tile and still sent its download message, for processImages and
\* combineScreenshots.
C8_DecodeFailureSkipped ==
    \A k \in comps :
        (k.status \notin {"injected", "rejected"} /\ k.bad # {}) => k.status = "sent"

\* C9: the screenshots handed to processImages by a chain are exactly the
\* tiles that chain recorded, in the order it recorded them, all captured on
\* the tab the compositor is injected into: none of another chain, none dropped.
C9_TilesOwned ==
    \A k \in comps :
        k.kind = "processImages" =>
            /\ \A i \in DOMAIN k.screenshots :
                  k.screenshots[i].by = k.by /\ k.screenshots[i].dataUrl.tab = k.tab
            /\ \A c \in chains :
                  c.id = k.by =>
                     c.offsets = [i \in DOMAIN k.screenshots |-> k.screenshots[i].scrollY]

TileOffset(k, i) ==
    IF k.kind = "processImages" THEN k.screenshots[i].scrollY
    ELSE k.screenshots[i].yPosition

Covering(k, r) ==
    { i \in DOMAIN k.screenshots \ k.bad :
        TileOffset(k, i) <= r /\ r < TileOffset(k, i) + k.screenshots[i].dataUrl.rows }

\* C10: after compositing, every row covered by a decoded tile shows the
\* covering decoded tile with the largest recorded offset.
C10_LaterWins ==
    \A k \in comps :
        k.status = "sent" =>
            \A r \in DOMAIN k.canvas :
                Covering(k, r) # {} =>
                    /\ k.canvas[r] \in Covering(k, r)
                    /\ \A i \in Covering(k, r) :
                          TileOffset(k, i) <= TileOffset(k, k.canvas[r])

\* C11: a driver whose scroll or capture of some tile failed, after a scroll
\* it had commanded moved the page, goes on to command the scroll back to
\* originalScrollPos: a restore follows in the record of the
\* captureCurrentViewport chain and of the handleCapture activation.
C11_RestoreOnFailure ==
    /\ \A c \in chains :
          (HasEvent(c.log, "failed") /\ HasEvent(c.log, "scrolled"))
             => HasEvent(c.log, "restore")
    /\ \A l \in loops :
          (HasEvent(l.log, "failed") /\ HasEvent(l.log, "scrolled"))
             => HasEvent(l.log, "restore")

\* The "dimensions" messages that reached the listeners.
Delivered == nmsgs - Cardinality({ m \in messages : m.type = "dimensions" })

\* C12: a rejected injection of the measuring routine starts nothing: every
\* chain and every handleCapture activation (the only issuers of scrolls and
\* captures) was started by the "dimensions" message of an injection that
\* resolved, every compositor and download belongs to one of them, and none
\* exists beyond the messages delivered, whatever dimensions are stored.
C12_FailFast ==
    /\ Cardinality(chains) <= Delivered
    /\ Cardinality(loops) <= Delivered
    /\ \A c \in chains : c.id \in 1..nmsgs
    /\ \A l \in loops : l.id \in 1..nmsgs
    /\ \A k \in comps : k.by \in 1..nmsgs
    /\ Len(downloads) <= Cardinality(comps)
    /\ (Delivered = 0) => (screenshots = <<>> /\ downloads = <<>>)

\* Reached: a session captured its tiles, then a second click emptied the
\* tile list and both of its injections were rejected with the first
\* session's dimensions still stored.
C12_Witness ==
    /\ clicks = 2
    /\ injections = {}
    /\ nmsgs = 1
    /\ faults = 3
    /\ dimensions # NoDimensions
    /\ screenshots = <<>>
    /\ \E c \in chains : c.pc = "done" /\ Len(c.offsets) >= 1

\* C13: the output surface starts opaque white, so in the image a compositor
\* sends for download every row of [0, height) that no drawn tile covers is
\* white, for processImages and for combineScreenshots.
C13_WhiteBackground ==
    \A k \in comps :
        k.status = "sent" =>
            \A r \in DOMAIN k.canvas :
                Covering(k, r) = {} => k.canvas[r] = White

SameGeometry(d, e) ==
    d.height = e.height /\ d.viewportHeight = e.viewportHeight

\* The offsets captureCurrentViewport records from index i on for the
\* geometry dims, when nothing but that geometry is read.
RECURSIVE OffsetsOf(_, _)
OffsetsOf(dims, i) ==
    LET step == scrollStep(dims.viewportHeight)
        pos == i * step
    IN  IF /\ i + 1 < MaxTiles
           /\ MoreScrolls(i, dims.height, step)
           /\ pos + step < dims.height
        THEN <<pos>> \o OffsetsOf(dims, i + 1)
        ELSE <<pos>>

\* C14: the recorded offsets are a function of the geometry a run was started
\* with: a complete captureCurrentViewport chain recorded the sequence of its
\* starting geometry whatever "dimensions" messages arrived meanwhile, and
\* two complete chains, or two complete handleCapture activations, started
\* with the same (height, viewportHeight) recorded the same offsets.
C14_OffsetsByGeometry ==
    /\ \A c \in chains :
          ChainComplete(c) => c.offsets = OffsetsOf(c.started, 0)
    /\ \A c, d \in chains :
          (ChainComplete(c) /\ ChainComplete(d) /\ SameGeometry(c.started, d.started))
             => c.offsets = d.offsets
    /\ \A l, m \in loops :
          (LoopComplete(l) /\ LoopComplete(m) /\ SameGeometry(l.dims, m.dims))
             => LoopOffsets(l) = LoopOffsets(m)

\* The data-model invariant on a measured geometry.
Allowed(dims) == dims.height >= dims.viewportHeight /\ dims.viewportHeight >= 0

\* C15: for every allowed geometry a capture loop whose calls all succeed
\* takes finitely many tiles and reaches compositing: every tile it goes on
\* to must reach a new row, so once a driver has recorded as many tiles as
\* the page has rows, captureCurrentViewport has called processScreenshots
\* and handleCapture has left its for loop.
C15_LoopEnds ==
    /\ \A c \in chains :
          (Allowed(c.started) /\ Len(c.offsets) >= Max(c.started.height, 1)
                              /\ ~HasEvent(c.log, "failed"))
             => ChainComplete(c)
    /\ \A l \in loops :
          (Allowed(l.dims) /\ Len(l.screenshots) >= Max(l.dims.height, 1)
                           /\ ~HasEvent(l.log, "failed"))
             => LoopComplete(l)

\* The tiles pushed by captureCurrentViewport chains: those in the global
\* list and those handed to processImages.
ChainTiles ==
    { screenshots[i] : i \in DOMAIN screenshots } \cup
    UNION { { k.screenshots[i] : i \in DOMAIN k.screenshots } :
            k \in { q \in comps : q.kind = "processImages" } }

\* C16: with the host clamping every commanded scroll, the offset recorded
\* with a tile is the scroll offset the page had when the tile was captured,
\* for every tile of captureCurrentViewport (scrollY) and of handleCapture
\* (yPosition) on a page with height >= viewportHeight >= 0; stated for the
\* tiles captured with the page where the driver's own scroll left it.
C16_RecordedIsActual ==
    /\ \A t \in ChainTiles :
          (Allowed(page[t.dataUrl.tab])
             /\ t.dataUrl.y = ScrollTo(t.dataUrl.tab, t.scrollY))
             => t.scrollY = t.dataUrl.y
    /\ \A l \in loops : \A i \in DOMAIN l.screenshots :
          (Allowed(l.dims)
             /\ l.screenshots[i].dataUrl.y =
                   ScrollTo(l.tabId, (i - 1) * l.dims.viewportHeight))
             => l.screenshots[i].yPosition = l.screenshots[i].dataUrl.y

\* C17: whenever a captureCurrentViewport chain has a scroll or a capture
\* under way against a tab, the geometry it works with (height,
\* viewportHeight, and the step derived from it) is that of the page in this
\* tab, also with clicks on two tabs interleaved with their "dimensions"
\* messages.
C17_OwnGeometry ==
    \A c \in chains :
        c.pc \in {"scroll", "settle", "capture"} =>
            /\ SameGeometry(c, page[c.tabId])
            /\ c.scrollStep = scrollStep(page[c.tabId].viewportHeight)

\* C18: with both onClicked and both onMessage listeners registered, one
\* click starts one capture loop, and at most one download is requested:
\* after a single click there is one driver (a captureCurrentViewport chain
\* or a handleCapture activation) and at most one chrome.downloads.download.
C18_OneLoopOneDownload ==
    clicks <= 1 =>
        /\ Cardinality(chains) + Cardinality(loops) <= 1
        /\ Len(downloads) <= 1

====
